---- MODULE Spec2Model ----
(***************************************************************************)
(* Model of the e-mail classification pipeline of email_classifier.py:     *)
(* load_researcher_db, configure_gemini, parse_gemini_response,            *)
(* find_matching_researchers, classify_email and main.                     *)
(*                                                                         *)
(* Text is a sequence of tokens.  A token is one character class of the    *)
(* real text:                                                              *)
(*   "F"  a triple-backquote fence       "j"  the tag json                 *)
(*   "n"  a newline                      "_"  a space                      *)
(*   "{" "}" "[" "]" ","   JSON punctuation                                *)
(*   "1" "0"               decimal digits                                  *)
(*   "N"                   the literal null                                *)
(*   "q"                   the string literal "s"                          *)
(*   "c" "u" "d" "D" "k"   one object member each, see Member              *)
(*   "x"                   a word of prose                                 *)
(***************************************************************************)
EXTENDS Integers, Sequences, FiniteSets, TLC

VARIABLES
    pc,             \* position of the run
    response_text,  \* parse_gemini_response: its argument
    parsed,         \* parse_gemini_response: its outcome
    researcher_db,  \* the staff directory, in iteration order
    department,     \* find_matching_researchers: the guesses
    lab,
    team,
    limit,          \* find_matching_researchers: its limit
    matches,        \* find_matching_researchers: its outcome
    backend,        \* classify_email: what the backend call does
    outcome,        \* classify_email: its outcome
    dbFile,         \* data/researcher_db.json
    apiKey,         \* whether GEMINI_API_KEY or GOOGLE_API_KEY is set
    probes,         \* configure_gemini: the probes issued, in order
    model_name,     \* configure_gemini: the model returned
    exitStatus,     \* exit status of the process, -1 while it runs
    requests        \* classification requests issued in the run

----------------------------------------------------------------------------
(* Python values.  Every value is a record [ty, v]; v is a sequence.       *)

PyNone == [ty |-> "none", v |-> <<>>]
PyStr(s) == [ty |-> "str", v |-> s]
PyInt(digits) == [ty |-> "int", v |-> digits]
PyList(items) == [ty |-> "list", v |-> items]
PyDict(members) == [ty |-> "dict", v |-> members]

\* bool(x) of Python: None, "", 0, [] and {} are false
Truthy(x) ==
    CASE x.ty = "none" -> FALSE
      [] x.ty = "int" -> x.v # <<"0">>
      [] OTHER -> x.v # <<>>

\* dict.get(key, default); members are <<key, value>> pairs
RECURSIVE DictGet(_, _, _)
DictGet(members, key, default) ==
    IF members = <<>> THEN default
    ELSE IF Head(members)[1] = key THEN Head(members)[2]
    ELSE DictGet(Tail(members), key, default)

\* d[key] = value on an insertion-ordered dict: a present key keeps its place
RECURSIVE DictSet(_, _)
DictSet(members, kv) ==
    IF members = <<>> THEN <<kv>>
    ELSE IF Head(members)[1] = kv[1] THEN <<kv>> \o Tail(members)
    ELSE <<Head(members)>> \o DictSet(Tail(members), kv)

----------------------------------------------------------------------------
(* str helpers                                                             *)

Whitespace == {"n", "_"}

RECURSIVE LStrip(_)
LStrip(s) == IF s # <<>> /\ Head(s) \in Whitespace THEN LStrip(Tail(s)) ELSE s

RECURSIVE RStrip(_)
RStrip(s) ==
    IF s # <<>> /\ s[Len(s)] \in Whitespace THEN RStrip(SubSeq(s, 1, Len(s) - 1)) ELSE s

\* str.strip()
Strip(s) == RStrip(LStrip(s))

\* str.find(t) and str.rfind(t) for a one-token t, 0-based, -1 when absent
Find(s, t) ==
    IF \E i \in 1..Len(s) : s[i] = t
    THEN (CHOOSE i \in 1..Len(s) : s[i] = t /\ \A k \in 1..(i - 1) : s[k] # t) - 1
    ELSE -1

RFind(s, t) ==
    IF \E i \in 1..Len(s) : s[i] = t
    THEN (CHOOSE i \in 1..Len(s) : s[i] = t /\ \A k \in (i + 1)..Len(s) : s[k] # t) - 1
    ELSE -1

\* s[start:end] for 0 <= start, 0 <= end
Slice(s, start, end) == SubSeq(s, start + 1, IF end > Len(s) THEN Len(s) ELSE end)

\* needle in haystack, for two str
Contains(haystack, needle) ==
    \E i \in 0..(Len(haystack) - Len(needle)) :
        SubSeq(haystack, i + 1, i + Len(needle)) = needle

----------------------------------------------------------------------------
(* json.loads                                                              *)

Digits == {"0", "1"}
MemberToks == {"c", "u", "d", "D", "k"}

\* the <<key, value>> a member token stands for
Member(tok) ==
    CASE tok = "c" -> <<"category", PyStr(<<"quality">>)>>
      [] tok = "u" -> <<"urgency", PyStr(<<"urgent">>)>>
      [] tok = "d" -> <<"recommended_department", PyStr(<<"a">>)>>
      [] tok = "D" -> <<"recommended_department", PyInt(<<"1">>)>>
      [] tok = "k" -> <<"key_points", PyNone>>

NoValue == [ok |-> FALSE, val |-> PyNone, next |-> 0]
Value(val, next) == [ok |-> TRUE, val |-> val, next |-> next]

\* index of the first token at or after i that is not whitespace
RECURSIVE SkipWs(_, _)
SkipWs(s, i) == IF i <= Len(s) /\ s[i] \in Whitespace THEN SkipWs(s, i + 1) ELSE i

\* index after the run of digits that starts at i
RECURSIVE DigitsEnd(_, _)
DigitsEnd(s, i) == IF i <= Len(s) /\ s[i] \in Digits THEN DigitsEnd(s, i + 1) ELSE i

RECURSIVE ScanOnce(_, _)
RECURSIVE JSONArray(_, _, _)
RECURSIVE JSONObject(_, _, _)

\* one JSON value starting at token i
ScanOnce(s, i) ==
    IF i > Len(s) THEN NoValue
    ELSE IF s[i] = "{" THEN
        LET j == SkipWs(s, i + 1) IN
        IF j <= Len(s) /\ s[j] = "}" THEN Value(PyDict(<<>>), j + 1)
        ELSE JSONObject(s, j, <<>>)
    ELSE IF s[i] = "[" THEN
        LET j == SkipWs(s, i + 1) IN
        IF j <= Len(s) /\ s[j] = "]" THEN Value(PyList(<<>>), j + 1)
        ELSE JSONArray(s, j, <<>>)
    ELSE IF s[i] = "q" THEN Value(PyStr(<<"s">>), i + 1)
    ELSE IF s[i] = "N" THEN Value(PyNone, i + 1)
    ELSE IF s[i] = "0" THEN Value(PyInt(<<"0">>), i + 1)
    ELSE IF s[i] = "1" THEN
        LET e == DigitsEnd(s, i) IN Value(PyInt(SubSeq(s, i, e - 1)), e)
    ELSE NoValue

\* the elements of an array, the next one expected at token i
JSONArray(s, i, acc) ==
    LET elt == ScanOnce(s, i) IN
    IF ~elt.ok THEN NoValue
    ELSE
        LET acc2 == Append(acc, elt.val)
            j == SkipWs(s, elt.next)
        IN  IF j > Len(s) THEN NoValue
            ELSE IF s[j] = "]" THEN Value(PyList(acc2), j + 1)
            ELSE IF s[j] = "," THEN JSONArray(s, SkipWs(s, j + 1), acc2)
            ELSE NoValue

\* the members of an object, the next one expected at token i
JSONObject(s, i, acc) ==
    IF i > Len(s) \/ s[i] \notin MemberToks THEN NoValue
    ELSE
        LET acc2 == DictSet(acc, Member(s[i]))
            j == SkipWs(s, i + 1)
        IN  IF j > Len(s) THEN NoValue
            ELSE IF s[j] = "}" THEN Value(PyDict(acc2), j + 1)
            ELSE IF s[j] = "," THEN JSONObject(s, SkipWs(s, j + 1), acc2)
            ELSE NoValue

\* json.loads(s): [ok, val]; ok = FALSE stands for JSONDecodeError
JsonLoads(s) ==
    LET r == ScanOnce(s, SkipWs(s, 1)) IN
    IF r.ok /\ SkipWs(s, r.next) = Len(s) + 1
    THEN [ok |-> TRUE, val |-> r.val]
    ELSE [ok |-> FALSE, val |-> PyNone]

----------------------------------------------------------------------------
(* parse_gemini_response                                                   *)

\* index of the last newline of the whitespace run that starts at i, else 0
LastNewline(s, i) ==
    LET e == SkipWs(s, i)
        nl == {k \in i..(e - 1) : s[k] = "n"}
    IN  IF nl = {} THEN 0 ELSE CHOOSE k \in nl : \A m \in nl : m <= k

\* index of the first fence at or after i, else 0
NextFence(s, i) ==
    LET fs == {k \in i..Len(s) : s[k] = "F"}
    IN  IF fs = {} THEN 0 ELSE CHOOSE k \in fs : \A m \in fs : k <= m

\* one match of the fence pattern (fence, optional json tag, whitespace
\* up to a newline, shortest content, fence) anchored at token i:
\* [ok, block, next]
FenceMatch(s, i) ==
    IF s[i] # "F" THEN [ok |-> FALSE, block |-> <<>>, next |-> 0]
    ELSE
        LET a == IF i + 1 <= Len(s) /\ s[i + 1] = "j" THEN i + 2 ELSE i + 1
            nl == LastNewline(s, a)
            close == IF nl = 0 THEN 0 ELSE NextFence(s, nl + 1)
        IN  IF nl = 0 \/ close = 0 THEN [ok |-> FALSE, block |-> <<>>, next |-> 0]
            ELSE [ok |-> TRUE, block |-> SubSeq(s, nl + 1, close - 1), next |-> close + 1]

\* re.findall: the non-overlapping matches, left to right, from token i on
RECURSIVE FindAll(_, _)
FindAll(s, i) ==
    IF i > Len(s) THEN <<>>
    ELSE
        LET m == FenceMatch(s, i) IN
        IF m.ok THEN <<m.block>> \o FindAll(s, m.next) ELSE FindAll(s, i + 1)

\* mutant: the blocks tried from the first one up
RECURSIVE FirstDecodableFrom(_, _)
FirstDecodableFrom(code_blocks, i) ==
    IF i > Len(code_blocks) THEN [ok |-> FALSE, val |-> PyNone]
    ELSE
        LET r == JsonLoads(Strip(code_blocks[i])) IN
        IF r.ok THEN r ELSE FirstDecodableFrom(code_blocks, i + 1)

FirstDecodable(code_blocks, k) == FirstDecodableFrom(code_blocks, 1)

\* for block in reversed(code_blocks): the first block, from the last one
\* down, that json.loads decodes
RECURSIVE LastDecodable(_, _)
LastDecodable(code_blocks, k) ==
    IF k = 0 THEN [ok |-> FALSE, val |-> PyNone]
    ELSE
        LET r == JsonLoads(Strip(code_blocks[k])) IN
        IF r.ok THEN r ELSE LastDecodable(code_blocks, k - 1)

\* mutant: the scan stops at the first closing brace
BraceScanToFirstClose(text) ==
    LET start == Find(text, "{")
        end == Find(text, "}") + 1
    IN  IF start >= 0 /\ end > start
        THEN JsonLoads(Slice(text, start, end))
        ELSE [ok |-> FALSE, val |-> PyNone]

\* the { ... } of widest range
BraceScan(text) ==
    LET start == Find(text, "{")
        end == RFind(text, "}") + 1
    IN  IF start >= 0 /\ end > start
        THEN JsonLoads(Slice(text, start, end))
        ELSE [ok |-> FALSE, val |-> PyNone]

\* parse_gemini_response(response_text): [raised, val].  The argument is a
\* Python value; None has no strip() and raises AttributeError.
parse_gemini_response(arg) ==
    IF arg.ty # "str" THEN [raised |-> TRUE, val |-> PyNone]
    ELSE
        LET text == Strip(arg.v)
            code_blocks == FindAll(text, 1)
            fenced == LastDecodable(code_blocks, Len(code_blocks))
            whole == JsonLoads(text)
            braces == BraceScan(text)
        IN  IF fenced.ok THEN [raised |-> FALSE, val |-> fenced.val]
            ELSE IF whole.ok THEN [raised |-> FALSE, val |-> whole.val]
            ELSE IF braces.ok THEN [raised |-> FALSE, val |-> braces.val]
            ELSE [raised |-> FALSE, val |-> PyDict(<<>>)]

----------------------------------------------------------------------------
(* Backend output texts: up to MaxChunks pieces, each one of Chunks        *)

MaxChunks == 3

Chunks ==
    << <<"x">>,
       <<"n">>,
       <<"F">>,
       <<"F", "j", "n", "{", "c", "}", "n", "F">>,
       <<"F", "n", "{", "u", ",", "d", "}", "F">>,
       <<"F", "j", "n", "{", "c", "n", "F">>,
       <<"{", "c", "}">>,
       <<"{", "D", ",", "_", "k", "}">>,
       <<"{">>,
       <<"}">>,
       <<"[", "1", ",", "q", "]">>,
       <<"[", "]">>,
       <<"1">>,
       <<"0">>,
       <<"N">> >>

RECURSIVE Flatten(_)
Flatten(pieces) ==
    IF pieces = <<>> THEN <<>> ELSE Chunks[Head(pieces)] \o Flatten(Tail(pieces))

TextsOf(maxChunks) ==
    UNION {{Flatten(ix) : ix \in [1..k -> 1..Len(Chunks)]} : k \in 0..maxChunks}

Texts == TextsOf(MaxChunks)

----------------------------------------------------------------------------
(* find_matching_researchers                                               *)

\* one test "guess and field and guess in field"; the guess is a Python
\* value, the field a str of the directory
FieldMatches(guess, fld) ==
    Truthy(guess) /\ fld # <<>> /\ guess.ty = "str" /\ Contains(fld, guess.v)

\* "guess in field" with a guess that is no str raises TypeError
FieldRaises(guess, fld) == Truthy(guess) /\ fld # <<>> /\ guess.ty # "str"

\* mutant: containment tested in both directions
MatchScoreEitherWay(info, dept, lb, tm) ==
    (IF FieldMatches(dept, info.department)
        \/ (Truthy(dept) /\ info.department # <<>> /\ Contains(dept.v, info.department))
     THEN 3 ELSE 0)
    + (IF FieldMatches(lb, info.lab) THEN 2 ELSE 0)
    + (IF FieldMatches(tm, info.team) THEN 1 ELSE 0)

\* the score of one record
MatchScore(info, dept, lb, tm) ==
    (IF FieldMatches(dept, info.department) THEN 3 ELSE 0)
    + (IF FieldMatches(lb, info.lab) THEN 2 ELSE 0)
    + (IF FieldMatches(tm, info.team) THEN 1 ELSE 0)

\* the entry appended for a record of score > 0
Candidate(code, info, score) ==
    [code |-> code,
     name |-> info.name,
     department |-> info.department,
     lab |-> info.lab,
     team |-> info.team,
     position |-> info.position,
     email |-> info.email,
     email_verified |-> info.email_verified,
     match_score |-> score]

\* whether a record is kept
Scored(score) == score > 0

\* the loop over researcher_db.items(): the candidates, in iteration order
RECURSIVE Candidates(_, _, _, _)
Candidates(db, dept, lb, tm) ==
    IF db = <<>> THEN <<>>
    ELSE
        LET code == Head(db)[1]
            info == Head(db)[2]
            score == MatchScore(info, dept, lb, tm)
        IN  (IF Scored(score) THEN <<Candidate(code, info, score)>> ELSE <<>>)
            \o Candidates(Tail(db), dept, lb, tm)

\* mutant: the sort without reverse = True
PrecedesAscending(earlier, later) == earlier.match_score <= later.match_score

\* mutant: a sort that is not stable, equal scores come out reversed
PrecedesStrictly(earlier, later) == earlier.match_score > later.match_score

\* whether an entry goes before another in the sorted list
Precedes(earlier, later) == earlier.match_score >= later.match_score

\* list.sort(key = match_score, reverse = True): stable, so an entry goes
\* after every entry of an equal or greater score that came before it
RECURSIVE InsertByScore(_, _)
InsertByScore(sorted, e) ==
    IF sorted = <<>> THEN <<e>>
    ELSE IF Precedes(Head(sorted), e)
         THEN <<Head(sorted)>> \o InsertByScore(Tail(sorted), e)
         ELSE <<e>> \o sorted

RECURSIVE SortByScore(_, _)
SortByScore(sorted, rest) ==
    IF rest = <<>> THEN sorted
    ELSE SortByScore(InsertByScore(sorted, Head(rest)), Tail(rest))

\* mutant: the slice one entry too long
PrefixOneMore(s, n) ==
    LET stop == IF n >= 0 THEN n + 1 ELSE Len(s) + n + 1
    IN  SubSeq(s, 1, IF stop > Len(s) THEN Len(s) ELSE stop)

\* s[:n]: a negative n counts from the end
Prefix(s, n) ==
    LET stop == IF n >= 0 THEN n ELSE Len(s) + n
    IN  SubSeq(s, 1, IF stop > Len(s) THEN Len(s) ELSE stop)

\* find_matching_researchers(researcher_db, department, lab, team, limit):
\* [raised, val]; raised = TRUE stands for the TypeError of a guess that
\* is no str
find_matching_researchers(db, dept, lb, tm, lim) ==
    IF \E i \in 1..Len(db) :
           \/ FieldRaises(dept, db[i][2].department)
           \/ FieldRaises(lb, db[i][2].lab)
           \/ FieldRaises(tm, db[i][2].team)
    THEN [raised |-> TRUE, val |-> <<>>]
    ELSE [raised |-> FALSE,
          val |-> Prefix(SortByScore(<<>>, Candidates(db, dept, lb, tm)), lim)]

----------------------------------------------------------------------------
(* Staff directories: up to MaxStaff records, as build_researcher_db       *)
(* writes them; the code of a record is its place in the file              *)

MaxStaff == 2
DefaultLimit == 5

DeptNames == {<<>>, <<"a">>, <<"a", "b">>}
LabNames == {<<>>, <<"b">>}
TeamNames == {<<>>, <<"c">>}

StaffInfos ==
    {[name |-> <<"name">>, department |-> d, lab |-> l, team |-> t,
      position |-> <<"pos">>, email |-> <<"placeholder">>,
      email_verified |-> FALSE] :
        d \in DeptNames, l \in LabNames, t \in TeamNames}

DirectoriesOf(maxStaff) ==
    UNION {{[i \in 1..k |-> <<i, infos[i]>>] : infos \in [1..k -> StaffInfos]} :
              k \in 0..maxStaff}

Directories == DirectoriesOf(MaxStaff)

DeptGuesses == {<<>>, <<"a">>, <<"b">>, <<"a", "b">>}
LabGuesses == {<<>>, <<"b">>}
TeamGuesses == {<<>>, <<"c">>}
Limits == {-1, 0, 1, 2, DefaultLimit}

----------------------------------------------------------------------------
(* classify_email                                                          *)

\* ClassificationResult(): every field at its default
ClassificationResult ==
    [category |-> PyStr(<<>>),
     category_description |-> PyStr(<<>>),
     urgency |-> PyStr(<<>>),
     urgency_reason |-> PyStr(<<>>),
     summary |-> PyStr(<<>>),
     key_points |-> PyList(<<>>),
     recommended_department |-> PyStr(<<>>),
     recommended_lab |-> PyStr(<<>>),
     recommended_team |-> PyStr(<<>>),
     recommended_researchers |-> PyList(<<>>),
     suggested_actions |-> PyList(<<>>),
     raw_response |-> PyStr(<<>>)]

\* the catch-all category, the mid urgency level and the two diagnostics
\* (the Korean literals of the source, named in ASCII)
CatchAllCategory == PyStr(<<"etc">>)
MidUrgency == PyStr(<<"normal">>)
FailurePrefix == <<"classification failed: ">>
ParseFailureSummary == PyStr(<<"JSON parse failed">>)

\* what the caller gets: a result, or an exception that escaped
Returned(state, result, calls) ==
    [raised |-> FALSE, state |-> state, result |-> result, calls |-> calls]
Escaped(result, calls) ==
    [raised |-> TRUE, state |-> "ESCAPED", result |-> result, calls |-> calls]
Calls(b, p, m) == [backend |-> b, parser |-> p, matcher |-> m]

\* mutant: the summary without the text of the exception
BackendFailedNoText(result, exc) ==
    Returned("BACKEND_FAILED",
             [result EXCEPT !.summary = PyStr(FailurePrefix)],
             Calls(1, 0, 0))

\* the except branch of the backend call
BackendFailed(result, exc) ==
    Returned("BACKEND_FAILED",
             [result EXCEPT !.summary = PyStr(FailurePrefix \o exc)],
             Calls(1, 0, 0))

\* mutant: the field defaults applied before the empty parse is noticed
ParseFailedWithDefaults(result) ==
    Returned("PARSE_FAILED",
             [result EXCEPT !.summary = ParseFailureSummary,
                            !.category = PyStr(<<"etc">>),
                            !.urgency = PyStr(<<"normal">>)],
             Calls(1, 1, 0))

\* the "if not parsed" branch
ParseFailed(result) ==
    Returned("PARSE_FAILED",
             [result EXCEPT !.summary = ParseFailureSummary],
             Calls(1, 1, 0))

\* mutant: every text field defaults to the empty string
CopyFieldsEmptyDefaults(result, members) ==
    [result EXCEPT
        !.category = DictGet(members, "category", PyStr(<<>>)),
        !.category_description = DictGet(members, "category_description", PyStr(<<>>)),
        !.urgency = DictGet(members, "urgency", PyStr(<<>>)),
        !.urgency_reason = DictGet(members, "urgency_reason", PyStr(<<>>)),
        !.summary = DictGet(members, "summary", PyStr(<<>>)),
        !.key_points = DictGet(members, "key_points", PyList(<<>>)),
        !.recommended_department = DictGet(members, "recommended_department", PyStr(<<>>)),
        !.recommended_lab = DictGet(members, "recommended_lab", PyStr(<<>>)),
        !.recommended_team = DictGet(members, "recommended_team", PyStr(<<>>)),
        !.suggested_actions = DictGet(members, "suggested_actions", PyList(<<>>))]

\* the ten parsed.get(key, default) assignments
CopyFields(result, members) ==
    [result EXCEPT
        !.category = DictGet(members, "category", CatchAllCategory),
        !.category_description = DictGet(members, "category_description", PyStr(<<>>)),
        !.urgency = DictGet(members, "urgency", MidUrgency),
        !.urgency_reason = DictGet(members, "urgency_reason", PyStr(<<>>)),
        !.summary = DictGet(members, "summary", PyStr(<<>>)),
        !.key_points = DictGet(members, "key_points", PyList(<<>>)),
        !.recommended_department = DictGet(members, "recommended_department", PyStr(<<>>)),
        !.recommended_lab = DictGet(members, "recommended_lab", PyStr(<<>>)),
        !.recommended_team = DictGet(members, "recommended_team", PyStr(<<>>)),
        !.suggested_actions = DictGet(members, "suggested_actions", PyList(<<>>))]

\* step 3: the matcher, skipped on an empty directory
MatchStaff(result, db) ==
    IF db = <<>> THEN Returned("DONE", result, Calls(1, 1, 0))
    ELSE
        LET m == find_matching_researchers(db, result.recommended_department,
                     result.recommended_lab, result.recommended_team, DefaultLimit)
        IN  IF m.raised THEN Escaped(result, Calls(1, 1, 1))
            ELSE Returned("DONE",
                          [result EXCEPT !.recommended_researchers = PyList(m.val)],
                          Calls(1, 1, 1))

\* classify_email(client, model_name, email, researcher_db, dept_summary).
\* be is what the backend call does: it raises be.exc, or it returns a
\* response whose text is be.text (a str, or None).  A parsed value that is
\* true and no dict has no get() and raises AttributeError.
classify_email(be, db) ==
    IF be.kind = "raise" THEN BackendFailed(ClassificationResult, be.exc)
    ELSE
        LET result == [ClassificationResult EXCEPT !.raw_response = be.text]
            p == parse_gemini_response(be.text)
        IN  IF p.raised THEN Escaped(result, Calls(1, 1, 0))
            ELSE IF ~Truthy(p.val) THEN ParseFailed(result)
            ELSE IF p.val.ty # "dict" THEN Escaped(result, Calls(1, 1, 0))
            ELSE MatchStaff(CopyFields(result, p.val.v), db)

----------------------------------------------------------------------------
(* What the backend call of classify_email can do                          *)

MaxRespChunks == 2
MaxServeStaff == 1

ExcTexts == {<<>>, <<"429 quota">>, <<"timeout">>}

BackendsOf(texts) ==
    {[kind |-> "raise", exc |-> e, text |-> PyNone] : e \in ExcTexts}
    \cup {[kind |-> "ok", exc |-> <<>>, text |-> PyNone]}
    \cup {[kind |-> "ok", exc |-> <<>>, text |-> PyStr(t)] : t \in texts}

Backends == BackendsOf(TextsOf(MaxRespChunks))

\* directories of records with a lab and a team, with or without a department
ServeInfos ==
    {info \in StaffInfos :
        info.lab # <<>> /\ info.team # <<>> /\ Len(info.department) <= 1}

ServeDirectories ==
    UNION {{[i \in 1..k |-> <<i, infos[i]>>] : infos \in [1..k -> ServeInfos]} :
              k \in 0..MaxServeStaff}

----------------------------------------------------------------------------
(* load_researcher_db, configure_gemini and main                           *)

GEMINI_MODELS ==
    <<"gemini-2.0-flash", "gemini-2.5-flash", "gemini-2.0-flash-lite",
      "gemini-2.5-flash-lite">>

ProbeOutcomes == {"ok", "quota", "other"}

\* mutant: the loop without its return
AfterProbeKeepGoing(probeOutcome) == "probing"

\* where the run goes after one probe: return on success, else next model
AfterProbe(probeOutcome) == IF probeOutcome = "ok" THEN "serve" ELSE "probing"

\* mutant: the loop ends and the run goes on without a model
AfterExhaustedGoOn == "serve"

\* where the run goes when the loop over GEMINI_MODELS ends: sys.exit(1)
AfterExhausted == "exited"

\* the candidate the loop probes next
NextCandidate(done) == Len(done) + 1

----------------------------------------------------------------------------
(* Specification of the parser on its own                                  *)

vars ==
    <<pc, response_text, parsed, researcher_db, department, lab, team, limit,
      matches, backend, outcome, dbFile, apiKey, probes, model_name,
      exitStatus, requests>>

NotParsed == [raised |-> FALSE, val |-> PyNone]
NotMatched == [raised |-> FALSE, val |-> <<>>]
NoBackend == [kind |-> "none", exc |-> <<>>, text |-> PyNone]
NotClassified == Returned("BUILT", ClassificationResult, Calls(0, 0, 0))
NoFile == [kind |-> "absent", db |-> <<>>]

parserVars == <<response_text, parsed>>
matcherVars == <<department, lab, team, limit, matches>>
classifyVars == <<backend, outcome>>
mainVars == <<dbFile, apiKey, probes, model_name, exitStatus, requests>>

ParserIdle == response_text = PyNone /\ parsed = NotParsed
MatcherIdle ==
    /\ department = PyStr(<<>>) /\ lab = PyStr(<<>>) /\ team = PyStr(<<>>)
    /\ limit = DefaultLimit /\ matches = NotMatched
ClassifyIdle == backend = NoBackend /\ outcome = NotClassified
MainIdle ==
    /\ dbFile = NoFile /\ apiKey = TRUE /\ probes = <<>> /\ model_name = ""
    /\ exitStatus = -1 /\ requests = 0

InitParse ==
    /\ pc = "parse"
    /\ response_text \in {PyStr(t) : t \in Texts}
    /\ parsed = NotParsed
    /\ researcher_db = <<>>
    /\ MatcherIdle /\ ClassifyIdle /\ MainIdle

ParseStep ==
    /\ pc = "parse"
    /\ parsed' = parse_gemini_response(response_text)
    /\ pc' = "parsed"
    /\ UNCHANGED <<response_text, researcher_db, matcherVars, classifyVars, mainVars>>

NextParse == ParseStep

SpecParse == InitParse /\ [][NextParse]_vars

----------------------------------------------------------------------------
(* Specification of the matcher on its own                                 *)

InitMatch ==
    /\ pc = "match"
    /\ researcher_db \in Directories
    /\ department \in {PyStr(g) : g \in DeptGuesses}
    /\ lab \in {PyStr(g) : g \in LabGuesses}
    /\ team \in {PyStr(g) : g \in TeamGuesses}
    /\ limit = DefaultLimit
    /\ matches = NotMatched
    /\ ParserIdle /\ ClassifyIdle /\ MainIdle

MatchStep ==
    /\ pc = "match"
    /\ \E lim \in Limits :
        /\ limit' = lim
        /\ matches' = find_matching_researchers(researcher_db, department, lab, team, lim)
    /\ pc' = "matched"
    /\ UNCHANGED <<researcher_db, department, lab, team, parserVars, classifyVars, mainVars>>

NextMatch == MatchStep

SpecMatch == InitMatch /\ [][NextMatch]_vars

----------------------------------------------------------------------------
(* Specification of one classification request                             *)

InitClassify ==
    /\ pc = "classify"
    /\ researcher_db \in ServeDirectories
    /\ backend \in Backends
    /\ outcome = NotClassified
    /\ ParserIdle /\ MatcherIdle /\ MainIdle

ClassifyStep ==
    /\ pc = "classify"
    /\ outcome' = classify_email(backend, researcher_db)
    /\ pc' = "classified"
    /\ UNCHANGED <<researcher_db, backend, parserVars, matcherVars, mainVars>>

NextClassify == ClassifyStep

SpecClassify == InitClassify /\ [][NextClassify]_vars

----------------------------------------------------------------------------
(* The matcher called on its own or from a classification request          *)

InitMatchClassify == InitMatch \/ InitClassify

NextMatchClassify == MatchStep \/ ClassifyStep

SpecMatchClassify == InitMatchClassify /\ [][NextMatchClassify]_vars

----------------------------------------------------------------------------
(* Specification of a run of main                                          *)

MaxEmails == 2

\* the texts the backend answers with in a run: prose, an object, an array
MainTexts == {<<"x">>, <<"{", "c", ",", "d", "}">>, <<"[", "1", ",", "q", "]">>}

MainBackends == BackendsOf(MainTexts)

\* the file is absent, is no JSON ("malformed"), is JSON but a non-empty
\* array ("array"), or is the JSON object build_researcher_db wrote
DbFiles ==
    {[kind |-> "absent", db |-> <<>>], [kind |-> "malformed", db |-> <<>>],
     [kind |-> "array", db |-> <<>>]}
    \cup {[kind |-> "object", db |-> d] : d \in ServeDirectories}

Init ==
    /\ pc = "load_db"
    /\ dbFile \in DbFiles
    /\ apiKey \in BOOLEAN
    /\ researcher_db = <<>>
    /\ probes = <<>>
    /\ model_name = ""
    /\ exitStatus = -1
    /\ requests = 0
    /\ ParserIdle /\ MatcherIdle /\ ClassifyIdle

\* load_researcher_db and the directory summary of main: {} when the file
\* is absent; json.load raises on a file that is no JSON, and
\* get_department_summary raises on a non-empty array, which has no
\* values(); main catches neither
LoadDb ==
    /\ pc = "load_db"
    /\ IF dbFile.kind \in {"malformed", "array"}
       THEN /\ pc' = "crashed"
            /\ exitStatus' = 1
            /\ UNCHANGED researcher_db
       ELSE /\ pc' = "configure"
            /\ researcher_db' = dbFile.db
            /\ UNCHANGED exitStatus
    /\ UNCHANGED <<dbFile, apiKey, probes, model_name, requests,
                   parserVars, matcherVars, classifyVars>>

\* configure_gemini without a credential: sys.exit(1)
NoCredential ==
    /\ pc = "configure"
    /\ ~apiKey
    /\ pc' = "exited"
    /\ exitStatus' = 1
    /\ UNCHANGED <<dbFile, apiKey, probes, model_name, requests, researcher_db,
                   parserVars, matcherVars, classifyVars>>

\* configure_gemini with a credential: the client is made
MakeClient ==
    /\ pc = "configure"
    /\ apiKey
    /\ pc' = "probing"
    /\ UNCHANGED <<dbFile, apiKey, probes, model_name, exitStatus, requests,
                   researcher_db, parserVars, matcherVars, classifyVars>>

\* one turn of the loop over GEMINI_MODELS: the ping succeeds, or raises
\* with or without 429 in its text
Probe ==
    /\ pc = "probing"
    /\ NextCandidate(probes) <= Len(GEMINI_MODELS)
    /\ \E o \in ProbeOutcomes :
        /\ probes' = Append(probes, [model |-> GEMINI_MODELS[NextCandidate(probes)],
                                      outcome |-> o])
        /\ pc' = AfterProbe(o)
        /\ model_name' =
              IF AfterProbe(o) = "serve" THEN GEMINI_MODELS[NextCandidate(probes)]
              ELSE model_name
    /\ UNCHANGED <<dbFile, apiKey, exitStatus, requests, researcher_db,
                   parserVars, matcherVars, classifyVars>>

\* the loop ended without a return: sys.exit(1)
Exhausted ==
    /\ pc = "probing"
    /\ NextCandidate(probes) > Len(GEMINI_MODELS)
    /\ pc' = AfterExhausted
    /\ exitStatus' = IF AfterExhausted = "exited" THEN 1 ELSE exitStatus
    /\ UNCHANGED <<dbFile, apiKey, probes, model_name, requests, researcher_db,
                   parserVars, matcherVars, classifyVars>>

\* one classify_email of the mode that runs (demo, interactive or file);
\* main catches nothing, so an exception that escapes ends the process
Classify ==
    /\ pc = "serve"
    /\ requests < MaxEmails
    /\ \E be \in MainBackends :
        /\ backend' = be
        /\ outcome' = classify_email(be, researcher_db)
        /\ pc' = IF classify_email(be, researcher_db).raised THEN "crashed" ELSE "serve"
        /\ exitStatus' = IF classify_email(be, researcher_db).raised THEN 1 ELSE exitStatus
    /\ requests' = requests + 1
    /\ UNCHANGED <<dbFile, apiKey, probes, model_name, researcher_db,
                   parserVars, matcherVars>>

\* the mode ends and main returns
Finish ==
    /\ pc = "serve"
    /\ pc' = "done"
    /\ exitStatus' = 0
    /\ UNCHANGED <<dbFile, apiKey, probes, model_name, requests, researcher_db,
                   parserVars, matcherVars, classifyVars>>

Next ==
    \/ LoadDb
    \/ NoCredential
    \/ MakeClient
    \/ Probe
    \/ Exhausted
    \/ Classify
    \/ Finish

Spec == Init /\ [][Next]_vars

----------------------------------------------------------------------------
(* Claims                                                                  *)

TextFields ==
    {"category", "category_description", "urgency", "urgency_reason", "summary",
     "recommended_department", "recommended_lab", "recommended_team", "raw_response"}
SequenceFields == {"key_points", "recommended_researchers", "suggested_actions"}

\* C1: classify_email never lets an exception escape: whatever the
\* backend call does and whatever the directory holds, the call returns a
\* ClassificationResult.
C1_NeverEscapes == pc = "classified" => ~outcome.raised

\* C2: parse_gemini_response returns without raising and returns a
\* mapping (the decoded object or the empty mapping) for every text.
C2_AlwaysMapping == pc = "parsed" => (~parsed.raised /\ parsed.val.ty = "dict")

\* C3: with a credential, the probes issued are a prefix of GEMINI_MODELS
\* in list order, each candidate probed at most once; every probe before
\* the last one failed (quota or other); the run leaves the loop at the
\* first success with that candidate as the model returned, and no model
\* is returned without a successful probe.
ProbedModels == [i \in 1..Len(probes) |-> probes[i].model]

C3_ProbesArePrefixToFirstSuccess ==
    /\ Len(probes) <= Len(GEMINI_MODELS)
    /\ ProbedModels = SubSeq(GEMINI_MODELS, 1, Len(probes))
    /\ \A i \in 1..(Len(probes) - 1) : probes[i].outcome \in {"quota", "other"}
    /\ probes # <<>> => apiKey
    /\ (probes # <<>> /\ probes[Len(probes)].outcome = "ok")
          => (pc # "probing" /\ model_name = probes[Len(probes)].model)
    /\ model_name # ""
          => (probes # <<>> /\ probes[Len(probes)].outcome = "ok"
              /\ model_name = GEMINI_MODELS[Len(probes)])

C3_Witness ==
    /\ pc = "serve"
    /\ Len(probes) = 2
    /\ probes[1].outcome = "quota"
    /\ probes[2].outcome = "ok"
    /\ model_name = GEMINI_MODELS[2]

\* C4: when every candidate fails its probe, the run ends with exit
\* status 1 after one probe of each candidate, no model is returned and
\* no classification request is issued.
AllProbesFailed ==
    /\ Len(probes) = Len(GEMINI_MODELS)
    /\ \A i \in 1..Len(probes) : probes[i].outcome # "ok"

C4_ExhaustionIsFatal ==
    AllProbesFailed =>
        /\ ProbedModels = GEMINI_MODELS
        /\ model_name = ""
        /\ requests = 0
        /\ pc \in {"probing", "exited"}
        /\ pc = "exited" => exitStatus = 1
        /\ pc = "probing" => exitStatus = -1

C4_Witness ==
    /\ AllProbesFailed
    /\ pc = "exited"
    /\ exitStatus = 1
    /\ \E i, k \in 1..Len(probes) : probes[i].outcome = "quota" /\ probes[k].outcome = "other"

\* C5: when the text holds fenced blocks of which at least one decodes,
\* the result is the decoded content of the last block that decodes.
FencedBlocks(text) == FindAll(Strip(text), 1)
Decodes(block) == JsonLoads(Strip(block)).ok

C5_LastDecodableBlockWins ==
    pc = "parsed" =>
        LET blocks == FencedBlocks(response_text.v)
            good == {k \in 1..Len(blocks) : Decodes(blocks[k])}
        IN  good # {} =>
                \E k \in good :
                    /\ \A m \in good : m <= k
                    /\ ~parsed.raised
                    /\ parsed.val = JsonLoads(Strip(blocks[k])).val

C5_Witness ==
    /\ pc = "parsed"
    /\ LET blocks == FencedBlocks(response_text.v)
       IN  /\ Len(blocks) = 2
           /\ ~Decodes(blocks[1])
           /\ Decodes(blocks[2])
           /\ parsed.val = JsonLoads(Strip(blocks[2])).val
           /\ Truthy(parsed.val)

\* C6: when the backend call raises, the request ends in BACKEND_FAILED
\* after exactly one backend call, with no call of the parser or of the
\* matcher; the summary holds the text of the exception and every other
\* field holds its default.
C6_BackendFailureIsRecorded ==
    (pc = "classified" /\ backend.kind = "raise") =>
        /\ ~outcome.raised
        /\ outcome.state = "BACKEND_FAILED"
        /\ outcome.calls = Calls(1, 0, 0)
        /\ outcome.result.summary.ty = "str"
        /\ Contains(outcome.result.summary.v, backend.exc)
        /\ \A f \in (TextFields \cup SequenceFields) \ {"summary"} :
               outcome.result[f] = ClassificationResult[f]

C6_Witness ==
    /\ pc = "classified"
    /\ backend.kind = "raise"
    /\ backend.exc # <<>>
    /\ researcher_db # <<>>
    /\ outcome.state = "BACKEND_FAILED"

\* C7: when the backend answers with text of which the parser recovers
\* nothing, the request ends in PARSE_FAILED: the summary is a non-empty
\* diagnostic, category is empty, raw_response is the backend's text, the
\* matcher is not called and recommended_researchers is empty.
NothingRecovered ==
    /\ backend.kind = "ok"
    /\ backend.text.ty = "str"
    /\ ~Truthy(parse_gemini_response(backend.text).val)

C7_ParseFailureIsRecorded ==
    (pc = "classified" /\ NothingRecovered) =>
        /\ ~outcome.raised
        /\ outcome.state = "PARSE_FAILED"
        /\ outcome.result.summary.ty = "str"
        /\ outcome.result.summary.v # <<>>
        /\ outcome.result.category = PyStr(<<>>)
        /\ outcome.result.raw_response = backend.text
        /\ outcome.calls.backend = 1
        /\ outcome.calls.matcher = 0
        /\ outcome.result.recommended_researchers = PyList(<<>>)

C7_Witness ==
    /\ pc = "classified"
    /\ backend.kind = "ok"
    /\ backend.text = PyStr(<<"x">>)
    /\ researcher_db # <<>>
    /\ outcome.state = "PARSE_FAILED"

\* C8: every ClassificationResult that classify_email returns has its nine
\* text fields of type str and its three sequence fields of type list.
C8_FieldsAreTyped ==
    (pc = "classified" /\ ~outcome.raised) =>
        /\ \A f \in TextFields : outcome.result[f].ty = "str"
        /\ \A f \in SequenceFields : outcome.result[f].ty = "list"

\* C9: every entry returned by find_matching_researchers has a match_score
\* of 3 for a non-empty department guess contained in the record's
\* department, plus 2 for the lab, plus 1 for the team, and no entry has
\* score 0.
GuessIn(guess, fld) == guess # <<>> /\ Contains(fld, guess)

C9_ScoreRule ==
    pc = "matched" =>
        /\ ~matches.raised
        /\ \A i \in 1..Len(matches.val) :
            LET e == matches.val[i]
                rec == researcher_db[e.code][2]
            IN  /\ e.match_score =
                      (IF GuessIn(department.v, rec.department) THEN 3 ELSE 0)
                      + (IF GuessIn(lab.v, rec.lab) THEN 2 ELSE 0)
                      + (IF GuessIn(team.v, rec.team) THEN 1 ELSE 0)
                /\ e.match_score # 0

C9_Witness ==
    /\ pc = "matched"
    /\ limit = DefaultLimit
    /\ Len(researcher_db) = 2
    /\ Len(matches.val) = 1
    /\ matches.val[1].match_score = 6
    /\ matches.val[1].code = 2

\* C10: the entries returned are strictly descending by score.
C10_StrictlyDescending ==
    pc = "matched" =>
        \A i \in 1..(Len(matches.val) - 1) :
            matches.val[i].match_score > matches.val[i + 1].match_score

\* C10, amended: the entries returned are descending by score, equal
\* scores allowed: no entry has a smaller score than the one after it.
C10_NeverAscending ==
    pc = "matched" =>
        \A i \in 1..(Len(matches.val) - 1) :
            matches.val[i].match_score >= matches.val[i + 1].match_score

C10_Witness ==
    /\ pc = "matched"
    /\ Len(matches.val) = 2
    /\ matches.val[1].match_score = matches.val[2].match_score
    /\ matches.val[1].code < matches.val[2].code

\* C11: the result of find_matching_researchers never has more than limit
\* entries, whatever the limit and the directory, and is empty for an empty
\* directory; classify_email on an empty directory does not call the
\* matcher and leaves recommended_researchers empty.
EmptyDirectoryRule ==
    /\ (pc = "matched" /\ researcher_db = <<>>) => matches.val = <<>>
    /\ (pc = "classified" /\ researcher_db = <<>>) =>
          /\ outcome.calls.matcher = 0
          /\ outcome.result.recommended_researchers = PyList(<<>>)

C11_AtMostLimit ==
    /\ pc = "matched" => (~matches.raised /\ Len(matches.val) <= limit)
    /\ EmptyDirectoryRule

\* C11, amended: for every limit >= 0 the result has at most limit entries
\* (a negative limit drops that many entries from the end instead); the
\* rest as stated.
C11_AtMostLimitWhenNotNegative ==
    /\ (pc = "matched" /\ limit >= 0) =>
          (~matches.raised /\ Len(matches.val) <= limit)
    /\ EmptyDirectoryRule

C11_Witness ==
    /\ pc = "matched"
    /\ limit = 1
    /\ Len(find_matching_researchers(researcher_db, department, lab, team,
                                     DefaultLimit).val) = 2
    /\ Len(matches.val) = 1

\* C12: every returned entry has a greater score than every record of
\* non-zero score that is not returned, or an equal score and an earlier
\* place in the directory; returned entries of equal score keep the
\* directory's order.
RecordScore(i) ==
    LET rec == researcher_db[i][2]
    IN  (IF GuessIn(department.v, rec.department) THEN 3 ELSE 0)
        + (IF GuessIn(lab.v, rec.lab) THEN 2 ELSE 0)
        + (IF GuessIn(team.v, rec.team) THEN 1 ELSE 0)

ReturnedCodes == {matches.val[k].code : k \in 1..Len(matches.val)}

C12_TopEntriesInOrder ==
    pc = "matched" =>
        /\ \A k \in 1..Len(matches.val) :
             \A i \in 1..Len(researcher_db) :
                (i \notin ReturnedCodes /\ RecordScore(i) > 0) =>
                    \/ matches.val[k].match_score > RecordScore(i)
                    \/ /\ matches.val[k].match_score = RecordScore(i)
                       /\ matches.val[k].code < i
        /\ \A k, m \in 1..Len(matches.val) :
             (k < m /\ matches.val[k].match_score = matches.val[m].match_score)
                => matches.val[k].code < matches.val[m].code

C12_Witness ==
    /\ pc = "matched"
    /\ limit = 1
    /\ Len(researcher_db) = 2
    /\ RecordScore(1) = RecordScore(2)
    /\ RecordScore(1) > 0
    /\ Len(matches.val) = 1
    /\ matches.val[1].code = 1

\* C13: a staff directory file that is absent, or present but not
\* decodable as a JSON object, is never fatal: the directory is empty, the
\* run goes on past loading, and classification skips matching.
C13_BadDirectoryIsNotFatal ==
    (dbFile.kind \in {"absent", "malformed", "array"} /\ pc # "load_db") =>
        /\ researcher_db = <<>>
        /\ ~(pc = "crashed" /\ requests = 0)
        /\ outcome.calls.matcher = 0

\* C14: when no fenced block decodes (there is none, or all fail), the
\* result is the decoded whole trimmed text; when that fails, the decoded
\* substring from the first { to the last } inclusive; when that fails
\* too, the empty mapping.
MinOf(S) == CHOOSE i \in S : \A k \in S : i <= k
MaxOf(S) == CHOOSE i \in S : \A k \in S : k <= i

C14_StagesInOrder ==
    pc = "parsed" =>
        LET text == Strip(response_text.v)
            blocks == FencedBlocks(response_text.v)
            whole == JsonLoads(text)
            opens == {i \in 1..Len(text) : text[i] = "{"}
            closes == {i \in 1..Len(text) : text[i] = "}"}
            inner == JsonLoads(SubSeq(text, MinOf(opens), MaxOf(closes)))
        IN  /\ ~parsed.raised
            /\ (\A k \in 1..Len(blocks) : ~Decodes(blocks[k])) =>
                  IF whole.ok THEN parsed.val = whole.val
                  ELSE IF opens # {} /\ closes # {} /\ MinOf(opens) < MaxOf(closes)
                          /\ inner.ok
                       THEN parsed.val = inner.val
                       ELSE parsed.val = PyDict(<<>>)

C14_Witness ==
    /\ pc = "parsed"
    /\ response_text.v # <<>>
    /\ Head(response_text.v) = "x"
    /\ FencedBlocks(response_text.v) = <<>>
    /\ ~JsonLoads(Strip(response_text.v)).ok
    /\ parsed.val = PyDict(<<Member("c")>>)

\* C15: when the parser returns a non-empty mapping, each of the ten
\* schema fields of the result is the mapping's value for that key when
\* the key is present, and otherwise its default: the catch-all label for
\* category, the mid level for urgency, the empty string for the other
\* text fields, the empty sequence for key_points and suggested_actions.
SchemaFields ==
    {"category", "category_description", "urgency", "urgency_reason", "summary",
     "key_points", "recommended_department", "recommended_lab",
     "recommended_team", "suggested_actions"}

HasKey(members, key) == \E i \in 1..Len(members) : members[i][1] = key
ValueOf(members, key) ==
    members[CHOOSE i \in 1..Len(members) : members[i][1] = key][2]

FieldDefault(f) ==
    CASE f = "category" -> PyStr(<<"etc">>)
      [] f = "urgency" -> PyStr(<<"normal">>)
      [] f \in {"key_points", "suggested_actions"} -> PyList(<<>>)
      [] OTHER -> PyStr(<<>>)

ParsedMapping == parse_gemini_response(backend.text).val

C15_FieldsCopiedWithDefaults ==
    (/\ pc = "classified"
     /\ backend.kind = "ok"
     /\ backend.text.ty = "str"
     /\ ParsedMapping.ty = "dict"
     /\ ParsedMapping.v # <<>>) =>
        \A f \in SchemaFields :
            outcome.result[f] =
                IF HasKey(ParsedMapping.v, f) THEN ValueOf(ParsedMapping.v, f)
                ELSE FieldDefault(f)

C15_Witness ==
    /\ pc = "classified"
    /\ backend.kind = "ok"
    /\ backend.text = PyStr(<<"{", "c", "}">>)
    /\ researcher_db # <<>>
    /\ outcome.state = "DONE"
    /\ outcome.result.category = PyStr(<<"quality">>)
    /\ outcome.result.urgency = PyStr(<<"normal">>)

====
